---- MODULE Spec2Model ----
(***************************************************************************)
(* Model of earth_lore_stream.py: the Encoder Supervisor (start_ffmpeg,    *)
(* stop_ffmpeg, restart_ffmpeg, send_frame, send_crossfade), the Audio     *)
(* Feeder (audio_feeder_loop, stop_decoder_proc, set_current_era,          *)
(* stop_audio_thread) and the Slide Sequencer (main).                      *)
(*                                                                         *)
(* Durations are integers in milliseconds, so FPS * duration is the        *)
(* rational FPS * ms / 1000.  Processes are numbered by launch order; 0    *)
(* stands for Python's None handle.                                        *)
(***************************************************************************)
EXTENDS Integers, Sequences, FiniteSets, TLC

(* ------------------------------ bounds -------------------------------- *)
\* frame writes that may fail in one run
MaxFail == 2
\* operations the client of the Encoder Supervisor issues in SpecEnc
MaxCalls == 3
\* decoder processes the Audio Feeder may spawn in SpecAudio
MaxSpawn == 3
\* Rows of the run in SpecOverlay
MaxSlides == 155
\* rotation counters corner_overlay_pick is applied to in SpecPick
MaxCycle == 9
\* images in an overlay pool in SpecPick
MaxPool == 3
\* pick_music_for_era calls in SpecResolve
MaxResolve == 3
\* Rows of the run in SpecNotify
MaxRows == 52

(* ------------------------- program constants -------------------------- *)
FPS == 30
SLIDE_DURATION == 4000
CROSSFADE_DURATION == 500
INTRO_OUTRO_DURATION == 6000
SPECIAL_MIN_DURATION == 5000
\* the None process handle
NoProc == 0
CORNER_OVERLAY_EVERY_N_SLIDES == 50
CORNER_OVERLAY_SHOW_M_SLIDES == 4
\* _discord_q = Queue(maxsize=50)
QueueMax == 50

(* ------------------------------ numbers ------------------------------- *)
\* Python round() of the rational n/d (d > 0): to nearest, ties to even.
RoundHalfEven(n, d) ==
    LET q == n \div d
        r == n % d
    IN  IF 2 * r < d THEN q
        ELSE IF 2 * r > d THEN q + 1
        ELSE IF q % 2 = 0 THEN q ELSE q + 1

\* Python int() of the rational n/d (d > 0): truncation toward zero.
TruncInt(n, d) == IF n >= 0 THEN n \div d ELSE -((-n) \div d)

Max(a, b) == IF a >= b THEN a ELSE b

\* total = int(round(FPS * duration)), duration in ms
FrameTotal(dur) == RoundHalfEven(FPS * dur, 1000)

\* steps = max(1, int(FPS * duration)), duration in ms
CrossfadeSteps(dur) == Max(1, TruncInt(FPS * dur, 1000))

(* ------------------------------- topics ------------------------------- *)
\* A topic (era) string "The "^the ++ stem ++ (" Era" if era) ++ (" (" ++ qual ++ ")"
\* if qual # ""); nil marks Python's None; the blank string has stem = "".
Topic(the, stem, era, qual) ==
    [nil |-> FALSE, the |-> the, stem |-> stem, era |-> era, qual |-> qual]
NoneEra == [nil |-> TRUE, the |-> 0, stem |-> "", era |-> FALSE, qual |-> ""]
BlankEra == Topic(0, "", FALSE, "")
StoneAge == Topic(0, "Stone Age", FALSE, "")
BronzeAge == Topic(0, "Bronze Age", FALSE, "")
TheBronzeAge == Topic(1, "Bronze Age", FALSE, "")
IronAgeRange == Topic(0, "Iron Age", FALSE, "1200-500 BC")

\* (era_name or "").strip()
StripEra(e) == IF e.nil THEN BlankEra ELSE e

(* ------------------------- Audio Track Resolver ----------------------- *)
DEFAULT_MUSIC == "background_loop.mp3"
\* current_file = None
NoFile == "None"

\* the files of MUSIC_DIR: name without ".mp3", and path
MusicDir ==
    { [name |-> StoneAge, path |-> "Stone Age.mp3"],
      [name |-> TheBronzeAge, path |-> "The Bronze Age.mp3"],
      [name |-> Topic(0, "Iron Age", TRUE, ""), path |-> "Iron Age Era.mp3"] }

\* _norm(os.path.splitext(v)[0]): case and punctuation are dropped, so the key of a
\* string is the concatenation of its parts; "" is the empty key.
NormKey(t) == <<t.the, t.stem, t.era, t.qual>>
EmptyKey == <<0, "", FALSE, "">>

\* _music_index(): normalized name -> path
MusicIndexKeys == { NormKey(f.name) : f \in MusicDir }
MusicIndexGet(k) == (CHOOSE f \in MusicDir : NormKey(f.name) = k).path

InSeq(x, s) == \E n \in 1..Len(s) : s[n] = x

\* _add(v, bag)
AddCand(v, bag) ==
    IF NormKey(v) # EmptyKey /\ ~InSeq(NormKey(v), bag) THEN Append(bag, NormKey(v)) ELSE bag

\* base = raw.split(" (", 1)[0].strip()
BaseEra(raw) == [raw EXCEPT !.qual = ""]

\* the candidate keys of pick_music_for_era, in priority order
Candidates(raw) ==
    LET base == BaseEra(raw)
        c1 == AddCand(raw, <<>>)
        c2 == AddCand(base, c1)
        c3 == IF base.the > 0
              THEN AddCand([base EXCEPT !.the = @ - 1], c2)
              ELSE AddCand([base EXCEPT !.the = 1], c2)
        c4 == IF base.era
              THEN AddCand([base EXCEPT !.era = FALSE], c3)
              ELSE AddCand([base EXCEPT !.era = TRUE], c3)
    IN  c4

IsBlankEra(e) == e.nil \/ e = BlankEra

Matches(raw) == { n \in 1..Len(Candidates(raw)) : Candidates(raw)[n] \in MusicIndexKeys }

FirstMatch(raw) == CHOOSE n \in Matches(raw) : \A m \in Matches(raw) : n <= m

\* the path pick_music_for_era(era_name) returns
pick_music_for_era(era_name) ==
    IF IsBlankEra(era_name) THEN DEFAULT_MUSIC
    ELSE IF Matches(era_name) # {} THEN MusicIndexGet(Candidates(era_name)[FirstMatch(era_name)])
    ELSE DEFAULT_MUSIC

\* the not-found diagnostics printed so far, after pick_music_for_era(era_name)
DiagnosticsAfterPick(era_name, reported, printed) ==
    IF ~IsBlankEra(era_name) /\ Matches(era_name) = {} /\ era_name \notin reported
    THEN Append(printed, era_name)
    ELSE printed

\* _missing_eras_reported when the guard leaves the set alone
ReportedAfterPick_Forget(era_name, reported) == reported
\* _missing_eras_reported after pick_music_for_era(era_name)
ReportedAfterPick(era_name, reported) ==
    IF ~IsBlankEra(era_name) /\ Matches(era_name) = {} THEN reported \cup {era_name}
    ELSE reported

(* --------------------------- Row durations ---------------------------- *)
\* era_durations_map.get(k); a missing key and a zero value are both falsy under "or"
MapGet(m, k) == IF \E e \in m : e.key = k THEN (CHOOSE e \in m : e.key = k).ms ELSE 0

\* era_secs of main
EraSecs(m, era) ==
    LET base_era == BaseEra(StripEra(era))
        a == MapGet(m, base_era)
        b == MapGet(m, [base_era EXCEPT !.the = @ + 1])
    IN  IF a # 0 THEN a ELSE IF b # 0 THEN b ELSE SLIDE_DURATION

\* dur of main
HoldDuration(m, row) ==
    IF row.special THEN Max(EraSecs(m, row.era), SPECIAL_MIN_DURATION) ELSE EraSecs(m, row.era)

(* ------------------------------- inputs -------------------------------- *)
Row(era, special) == [era |-> era, special |-> special]

\* the CSV rows and the era_durations.txt mapping of one installation
Installations ==
    { [rows |-> <<Row(StoneAge, FALSE), Row(StoneAge, FALSE), Row(BronzeAge, FALSE)>>,
       durs |-> { [key |-> StoneAge, ms |-> 100], [key |-> TheBronzeAge, ms |-> 200] }],
      [rows |-> <<Row(IronAgeRange, TRUE), Row(BlankEra, FALSE)>>,
       durs |-> { [key |-> Topic(0, "Iron Age", FALSE, ""), ms |-> 3000] }],
      [rows |-> <<Row(Topic(0, "Ice Age", FALSE, ""), FALSE)>>,
       durs |-> {}],
      [rows |-> <<Row(TheBronzeAge, FALSE), Row(TheBronzeAge, TRUE)>>,
       durs |-> { [key |-> BronzeAge, ms |-> 2000] }],
      [rows |-> <<>>, durs |-> {}] }

\* images: the title frames and the slide of Row i
NoImg == <<"none", 0>>
IntroImg == <<"intro", 0>>
OutroImg == <<"outro", 0>>
SlideImg(i) == <<"row", i>>

(* ---------------------------- corner overlay --------------------------- *)
\* an overlay image file of a pool; ok: corner_overlay_prepare can load it
Overlay(pool, k, ok) == [pool |-> pool, k |-> k, ok |-> ok]
\* None
NoOverlay == [pool |-> "none", k |-> 0, ok |-> FALSE]

\* a pick whose sponsors cycle like the promos
corner_overlay_pick_Cycle(cycle_idx, P, S) ==
    LET n == cycle_idx \div 2
    IN  IF P = <<>> /\ S = <<>> THEN NoOverlay
        ELSE IF cycle_idx % 2 = 0
        THEN IF P # <<>> THEN P[(n % Len(P)) + 1] ELSE S[(n % Len(S)) + 1]
        ELSE IF S # <<>> THEN S[(n % Len(S)) + 1]
        ELSE P[(n % Len(P)) + 1]

\* corner_overlay_pick(cycle_idx) with _overlay_promos = P and _overlay_sponsors = S
corner_overlay_pick(cycle_idx, P, S) ==
    LET n == cycle_idx \div 2
    IN  IF P = <<>> /\ S = <<>> THEN NoOverlay
        ELSE IF cycle_idx % 2 = 0
        THEN IF P # <<>> THEN P[(n % Len(P)) + 1] ELSE S[(n % Len(S)) + 1]
        ELSE IF S # <<>> THEN (IF n < Len(S) THEN S[n + 1] ELSE S[1])
        ELSE P[(n % Len(P)) + 1]

\* corner_overlay_prepare(path) if path else None
corner_overlay_prepare(path) == IF path.ok THEN path ELSE NoOverlay

\* whether slide_no starts an overlay block
BlockStarts_WithFirst(slide_no) == slide_no % CORNER_OVERLAY_EVERY_N_SLIDES = 1
BlockStarts(slide_no) == slide_no % CORNER_OVERLAY_EVERY_N_SLIDES = 1 /\ slide_no # 1

(* ------------------------------- state --------------------------------- *)
VARIABLES
    \* inputs: the rows, the duration overrides, and last_index.txt (and what it
    \* held when the program started)
    rows, durs, cursorKind, cursorVal, boot,
    \* main(): position, start_idx, the loop's i, prev_img, slide
    pc, start_idx, row_i, prev_img, slide,
    \* Encoder Supervisor: the handle, the encoder processes alive, processes
    \* launched so far, write failures so far
    ffmpeg_proc, encLive, launches, fails,
    \* the running send_frame / send_crossfade call and its locals
    op, argA, argB, argDur, total, sent, steps, cf_i, retpc,
    \* operations issued by the client of SpecEnc
    calls,
    \* history: frames written (run-length), successful writes of the running
    \* call, alpha numerators written by the running crossfade, the Rows
    \* begun, cursor values written, whether a cursor write failed
    frames, written, alphaLog, processed, cursorLog, persistFailed,
    \* shared with the Audio Feeder: _current_era, _audio_stop, _audio_decoder_proc,
    \* _missing_eras_reported; set_current_era calls so far
    current_era, audio_stop, audio_decoder_proc, missing_reported, setCount,
    \* audio_feeder_loop: position, era, music_file, current_file, and where its
    \* stop_decoder_proc() returns to
    fpc, f_era, music_file, current_file, f_after,
    \* decoder processes alive, the live ones sent terminate(), processes spawned so
    \* far; whether a reader holds the audio FIFO open
    decLive, decTerm, spawns, fifoReader,
    \* history: the decoder starts (current_file, music_file, setCount)
    started,
    \* history: the raw topics the not-found diagnostic was printed for, and the
    \* (topic, path) of the pick_music_for_era calls made on their own
    diagnostics, resolved,
    \* corner overlay: _overlay_promos, _overlay_sponsors, and main's overlay_cycle_idx,
    \* overlay_block_remaining, overlay_current_rgba; the overlay pasted on `slide`
    overlay_promos, overlay_sponsors, overlay_cycle_idx, overlay_block_remaining,
    overlay_current, slide_overlay,
    \* Discord: DISCORD_POST_MODE, whether DISCORD_WEBHOOK_URL is set, the items in
    \* _discord_q, and what became of the notification of the Row in hand
    discord_mode, discord_url, discord_q, notified

inputVars == <<rows, durs, boot>>
cursorVars == <<cursorKind, cursorVal>>
mainVars == <<start_idx, row_i, prev_img, slide>>
encVars == <<ffmpeg_proc, encLive, launches>>
sendVars == <<op, argA, argB, argDur, total, sent, steps, cf_i, retpc>>
callHist == <<written, alphaLog>>
runHist == <<processed, cursorLog, persistFailed>>
eraVars == <<current_era, setCount>>
resolveHist == <<diagnostics, resolved>>
feederVars == <<fpc, f_era, music_file, current_file, f_after, missing_reported, started,
                resolveHist>>
decVars == <<audio_decoder_proc, decLive, decTerm, spawns>>
audioVars == <<eraVars, audio_stop, feederVars, decVars, fifoReader>>
poolVars == <<overlay_promos, overlay_sponsors>>
discordCfg == <<discord_mode, discord_url>>
notifyVars == <<discordCfg, discord_q, notified>>
overlayVars == <<poolVars, overlay_cycle_idx, overlay_block_remaining, overlay_current,
                 slide_overlay>>

vars == <<rows, durs, cursorKind, cursorVal, boot, pc, start_idx, row_i, prev_img, slide,
          ffmpeg_proc, encLive, launches, fails,
          op, argA, argB, argDur, total, sent, steps, cf_i, retpc, calls,
          frames, written, alphaLog, processed, cursorLog, persistFailed,
          current_era, audio_stop, audio_decoder_proc, missing_reported, setCount,
          fpc, f_era, music_file, current_file, f_after,
          decLive, decTerm, spawns, fifoReader, started, diagnostics, resolved,
          overlay_promos, overlay_sponsors, overlay_cycle_idx, overlay_block_remaining,
          overlay_current, slide_overlay, discord_mode, discord_url, discord_q, notified>>

(* -------------------------- Encoder Supervisor ------------------------- *)
\* encoder processes alive after stop_ffmpeg; lingers: the process is still running
\* when wait(timeout=3) gives up (or close() raised and the wait was skipped)
LiveAfterStop(lingers) ==
    IF ffmpeg_proc # NoProc /\ ~lingers THEN encLive \ {ffmpeg_proc} ELSE encLive

\* stop_ffmpeg()
StopFfmpeg(lingers) ==
    /\ encLive' = LiveAfterStop(lingers)
    /\ ffmpeg_proc' = NoProc
    /\ UNCHANGED launches

\* start_ffmpeg(); ok: subprocess.Popen returned a process
StartFfmpeg(ok) ==
    /\ launches' = IF ok THEN launches + 1 ELSE launches
    /\ ffmpeg_proc' = IF ok THEN launches + 1 ELSE ffmpeg_proc
    /\ encLive' = IF ok THEN encLive \cup {launches + 1} ELSE encLive

\* restart_ffmpeg(): stop_ffmpeg() then start_ffmpeg()
RestartFfmpeg(lingers, ok) ==
    /\ launches' = IF ok THEN launches + 1 ELSE launches
    /\ ffmpeg_proc' = IF ok THEN launches + 1 ELSE NoProc
    /\ encLive' = LiveAfterStop(lingers) \cup (IF ok THEN {launches + 1} ELSE {})

\* an encoder process that outlived its stop_ffmpeg() exits
OrphanExits ==
    /\ \E p \in encLive \ {ffmpeg_proc} : encLive' = encLive \ {p}
    /\ UNCHANGED <<audioVars, inputVars, notifyVars, overlayVars, cursorVars, pc, mainVars, ffmpeg_proc, launches, fails,
                   sendVars, calls, frames, callHist, runHist>>

NoCall ==
    /\ op' = "none" /\ argA' = NoImg /\ argB' = NoImg /\ argDur' = 0
    /\ total' = 0 /\ sent' = 0 /\ steps' = 0 /\ cf_i' = 0 /\ retpc' = "none"
    /\ written' = 0 /\ alphaLog' = <<>>

\* frames after one more frame <<kind, a, b>> of the running call was written
Logged(kind, a, b) ==
    IF retpc = "client" THEN frames
    ELSE IF written = 0 THEN Append(frames, [kind |-> kind, a |-> a, b |-> b, n |-> 1])
    ELSE [frames EXCEPT ![Len(frames)].n = @ + 1]

\* send_frame(img, duration) is entered; ret is where the caller continues
CallSendFrame(img, duration, ret) ==
    IF ffmpeg_proc = NoProc
    THEN /\ pc' = ret
         /\ UNCHANGED <<sendVars, callHist>>
    ELSE /\ pc' = "send"
         /\ op' = "frame" /\ argA' = img /\ argB' = NoImg /\ argDur' = duration
         /\ total' = FrameTotal(duration) /\ sent' = 0
         /\ steps' = 0 /\ cf_i' = 0 /\ retpc' = ret
         /\ written' = 0 /\ alphaLog' = <<>>

\* sent after a failed write and the restart
SentAfterFail_Resend(n) == 0
SentAfterFail(n) == n

\* ffmpeg_proc.stdin.write(frame) succeeds; sent += 1
FrameWrite ==
    /\ pc = "send" /\ op = "frame" /\ sent < total
    /\ sent' = sent + 1
    /\ written' = written + 1
    /\ frames' = Logged("hold", argA, argA)
    /\ UNCHANGED <<audioVars, inputVars, notifyVars, overlayVars, cursorVars, pc, mainVars, encVars, fails, calls, runHist,
                   op, argA, argB, argDur, total, steps, cf_i, retpc, alphaLog>>

\* a restart that also drops the feeder's decoder
FrameWriteFails_StopsDecoder ==
    /\ pc = "send" /\ op = "frame" /\ sent < total
    /\ fails < MaxFail
    /\ fails' = fails + 1
    /\ \E lingers \in BOOLEAN : RestartFfmpeg(lingers, TRUE)
    /\ sent' = SentAfterFail(sent)
    /\ audio_decoder_proc' = NoProc
    /\ UNCHANGED <<eraVars, audio_stop, feederVars, decLive, decTerm, spawns, fifoReader,
                   inputVars, notifyVars, overlayVars, cursorVars, pc, mainVars, calls,
                   runHist, frames, op, argA, argB, argDur, total, steps, cf_i, retpc,
                   written, alphaLog>>

\* the write raises BrokenPipeError / OSError; restart_ffmpeg(); continue
FrameWriteFails ==
    /\ pc = "send" /\ op = "frame" /\ sent < total
    /\ fails < MaxFail
    /\ fails' = fails + 1
    /\ \E lingers \in BOOLEAN : RestartFfmpeg(lingers, TRUE)
    /\ sent' = SentAfterFail(sent)
    /\ UNCHANGED <<audioVars, inputVars, notifyVars, overlayVars, cursorVars, pc, mainVars, calls, runHist, frames,
                   op, argA, argB, argDur, total, steps, cf_i, retpc, written, alphaLog>>

\* the loop of send_frame ends and the call returns
FrameReturn ==
    /\ pc = "send" /\ op = "frame" /\ sent >= total
    /\ pc' = retpc
    /\ NoCall
    /\ UNCHANGED <<audioVars, inputVars, notifyVars, overlayVars, cursorVars, mainVars, encVars, fails, calls, runHist, frames>>

\* send_crossfade(img_a, img_b, duration) is entered
CallSendCrossfade(img_a, img_b, duration, ret) ==
    IF ffmpeg_proc = NoProc
    THEN /\ pc' = ret
         /\ UNCHANGED <<sendVars, callHist>>
    ELSE /\ pc' = "send"
         /\ op' = "xfade" /\ argA' = img_a /\ argB' = img_b /\ argDur' = duration
         /\ steps' = CrossfadeSteps(duration) /\ cf_i' = 0
         /\ total' = 0 /\ sent' = 0 /\ retpc' = ret
         /\ written' = 0 /\ alphaLog' = <<>>

\* i after a failed blend write and the restart
StepAfterFail_Skip(n) == n + 1
StepAfterFail(n) == n

\* the blend with alpha = i / steps is written; i += 1
CrossfadeWrite ==
    /\ pc = "send" /\ op = "xfade" /\ cf_i < steps
    /\ cf_i' = cf_i + 1
    /\ written' = written + 1
    /\ alphaLog' = Append(alphaLog, cf_i)
    /\ frames' = Logged("xfade", argA, argB)
    /\ UNCHANGED <<audioVars, inputVars, notifyVars, overlayVars, cursorVars, pc, mainVars, encVars, fails, calls, runHist,
                   op, argA, argB, argDur, total, sent, steps, retpc>>

\* the blend write raises; restart_ffmpeg(); continue
CrossfadeWriteFails ==
    /\ pc = "send" /\ op = "xfade" /\ cf_i < steps
    /\ fails < MaxFail
    /\ fails' = fails + 1
    /\ \E lingers \in BOOLEAN : RestartFfmpeg(lingers, TRUE)
    /\ cf_i' = StepAfterFail(cf_i)
    /\ UNCHANGED <<audioVars, inputVars, notifyVars, overlayVars, cursorVars, pc, mainVars, calls, runHist, frames,
                   op, argA, argB, argDur, total, sent, steps, retpc, written, alphaLog>>

\* the loop of send_crossfade ends and the call returns
CrossfadeReturn ==
    /\ pc = "send" /\ op = "xfade" /\ cf_i >= steps
    /\ pc' = retpc
    /\ NoCall
    /\ UNCHANGED <<audioVars, inputVars, notifyVars, overlayVars, cursorVars, mainVars, encVars, fails, calls, runHist, frames>>

\* a write fails and the start_ffmpeg() of the restart raises: the exception leaves
\* send_frame / send_crossfade and ends the caller
RestartRaises ==
    /\ pc = "send" /\ op \in {"frame", "xfade"}
    /\ IF op = "frame" THEN sent < total ELSE cf_i < steps
    /\ fails < MaxFail
    /\ fails' = fails + 1
    /\ \E lingers \in BOOLEAN : RestartFfmpeg(lingers, FALSE)
    /\ pc' = "crashed"
    /\ NoCall
    /\ UNCHANGED <<audioVars, inputVars, notifyVars, overlayVars, cursorVars, mainVars, calls, runHist, frames>>

SendSteps ==
    \/ FrameWrite \/ FrameWriteFails \/ FrameReturn
    \/ CrossfadeWrite \/ CrossfadeWriteFails \/ CrossfadeReturn
    \/ RestartRaises
    \/ OrphanExits

(* ------------------- a client of the Encoder Supervisor ---------------- *)
\* durations (ms) the client passes to send_frame and send_crossfade
FrameDurations == {0, 17, 50, 150, 500, 3000}
CrossfadeDurations == {0, 50, 100, 500}

ClientStart ==
    /\ pc = "client" /\ calls < MaxCalls /\ ffmpeg_proc = NoProc
    /\ calls' = calls + 1
    /\ \E ok \in BOOLEAN :
          /\ StartFfmpeg(ok)
          /\ pc' = IF ok THEN "client" ELSE "crashed"
    /\ UNCHANGED <<audioVars, inputVars, notifyVars, overlayVars, cursorVars, mainVars, fails, sendVars, frames, callHist, runHist>>

ClientStop ==
    /\ pc = "client" /\ calls < MaxCalls
    /\ calls' = calls + 1
    /\ \E lingers \in BOOLEAN : StopFfmpeg(lingers)
    /\ UNCHANGED <<audioVars, inputVars, notifyVars, overlayVars, cursorVars, pc, mainVars, fails, sendVars, frames, callHist,
                   runHist>>

ClientRestart ==
    /\ pc = "client" /\ calls < MaxCalls
    /\ calls' = calls + 1
    /\ \E lingers \in BOOLEAN, ok \in BOOLEAN :
          /\ RestartFfmpeg(lingers, ok)
          /\ pc' = IF ok THEN "client" ELSE "crashed"
    /\ UNCHANGED <<audioVars, inputVars, notifyVars, overlayVars, cursorVars, mainVars, fails, sendVars, frames, callHist, runHist>>

ClientSendFrame ==
    /\ pc = "client" /\ calls < MaxCalls
    /\ calls' = calls + 1
    /\ \E d \in FrameDurations : CallSendFrame(IntroImg, d, "client")
    /\ UNCHANGED <<audioVars, inputVars, notifyVars, overlayVars, cursorVars, mainVars, encVars, fails, frames, runHist>>

ClientSendCrossfade ==
    /\ pc = "client" /\ calls < MaxCalls
    /\ calls' = calls + 1
    /\ \E d \in CrossfadeDurations : CallSendCrossfade(IntroImg, OutroImg, d, "client")
    /\ UNCHANGED <<audioVars, inputVars, notifyVars, overlayVars, cursorVars, mainVars, encVars, fails, frames, runHist>>

\* the globals and locals at program start, but for the counts of write failures and
\* of decoder spawns so far
InitGlobals ==
    /\ start_idx = 0 /\ row_i = 0 /\ prev_img = NoImg /\ slide = NoImg
    /\ ffmpeg_proc = NoProc /\ encLive = {} /\ launches = 0
    /\ op = "none" /\ argA = NoImg /\ argB = NoImg /\ argDur = 0
    /\ total = 0 /\ sent = 0 /\ steps = 0 /\ cf_i = 0 /\ retpc = "none"
    /\ calls = 0
    /\ frames = <<>> /\ written = 0 /\ alphaLog = <<>>
    /\ processed = <<>> /\ cursorLog = <<>> /\ persistFailed = FALSE
    /\ current_era = NoneEra /\ audio_stop = FALSE /\ audio_decoder_proc = NoProc
    /\ missing_reported = {} /\ setCount = 0
    /\ f_era = NoneEra /\ music_file = NoFile /\ current_file = NoFile /\ f_after = "none"
    /\ decLive = {} /\ decTerm = {}
    /\ started = <<>> /\ diagnostics = <<>> /\ resolved = <<>>
    /\ overlay_cycle_idx = 0 /\ overlay_block_remaining = 0
    /\ overlay_current = NoOverlay /\ slide_overlay = NoOverlay
    /\ discord_q = 0 /\ notified = "none"

InitCommon == InitGlobals /\ fails = 0 /\ spawns = 0

InitEnc ==
    /\ rows = <<>> /\ durs = {}
    /\ cursorKind = "absent" /\ cursorVal = 0
    /\ boot = <<cursorKind, cursorVal>>
    /\ pc = "client"
    /\ fpc = "off" /\ fifoReader = FALSE
    /\ discord_mode = "all" /\ discord_url = FALSE
    /\ overlay_promos = <<>> /\ overlay_sponsors = <<>>
    /\ InitCommon

NextEnc ==
    \/ ClientStart \/ ClientStop \/ ClientRestart
    \/ ClientSendFrame \/ ClientSendCrossfade
    \/ SendSteps

SpecEnc == InitEnc /\ [][NextEnc]_vars

(* -------------------- the shared current-topic cell -------------------- *)
\* set_current_era(era_name)
SetCurrentEra(era_name) ==
    /\ current_era' = StripEra(era_name)
    /\ setCount' = setCount + 1

(* ---------------------------- Slide Sequencer -------------------------- *)
\* DISCORD_ENABLE
DISCORD_ENABLE == discord_url /\ discord_mode # "none"

\* whether put_nowait finds room in a queue holding n items
QueueRoom_Unbounded(n) == TRUE
QueueRoom(n) == n < QueueMax

\* the Discord part of the loop body of main for Row i: enqueue_discord_slide is
\* called if the mode asks for it; it returns at once when Discord is disabled, and
\* otherwise compresses the slide (saved: img.save did not raise) and calls put_nowait
NotifyStep(i) ==
    LET wants == \/ discord_mode = "all"
                 \/ discord_mode = "special" /\ rows[i + 1].special
    IN  /\ \E saved \in BOOLEAN :
              notified' = IF ~wants THEN "skipped"
                          ELSE IF ~DISCORD_ENABLE THEN "disabled"
                          ELSE IF ~saved THEN "failed"
                          ELSE IF QueueRoom(discord_q) THEN "queued"
                          ELSE "dropped"
        /\ discord_q' = IF notified' = "queued" THEN discord_q + 1 ELSE discord_q
        /\ UNCHANGED discordCfg

\* the corner-overlay part of the loop body of main for Row i
OverlayStep(i) ==
    LET slide_no == i + 1
        starts == BlockStarts(slide_no)
        path == corner_overlay_pick(overlay_cycle_idx, overlay_promos, overlay_sponsors)
        cur == IF starts THEN corner_overlay_prepare(path) ELSE overlay_current
        rem == IF starts THEN CORNER_OVERLAY_SHOW_M_SLIDES ELSE overlay_block_remaining
        pastes == rem > 0 /\ cur # NoOverlay
    IN  /\ overlay_cycle_idx' = IF starts THEN overlay_cycle_idx + 1 ELSE overlay_cycle_idx
        /\ overlay_current' = cur
        /\ overlay_block_remaining' = IF pastes THEN rem - 1 ELSE rem
        /\ slide_overlay' = IF pastes THEN cur ELSE NoOverlay
        /\ UNCHANGED poolVars

Total == Len(rows)

\* start_idx as main reads it from last_index.txt
ResumeIndex(kind, val) == IF kind = "int" THEN val ELSE 0

\* main up to start_discord_thread(): the resume point is read and the encoder is
\* started; a Popen that raises ends the program
MainLoad ==
    /\ pc = "load"
    /\ start_idx' = ResumeIndex(cursorKind, cursorVal)
    /\ row_i' = ResumeIndex(cursorKind, cursorVal)
    /\ \E ok \in BOOLEAN :
          /\ StartFfmpeg(ok)
          /\ pc' = IF ok THEN "intro" ELSE "crashed"
    /\ UNCHANGED <<audioVars, inputVars, notifyVars, overlayVars, cursorVars, prev_img, slide, fails, sendVars, calls, frames,
                   callHist, runHist>>

\* send_frame(intro, INTRO_OUTRO_DURATION); prev_img = None
MainIntro ==
    /\ pc = "intro"
    /\ CallSendFrame(IntroImg, INTRO_OUTRO_DURATION, "loop")
    /\ prev_img' = NoImg
    /\ UNCHANGED <<audioVars, inputVars, notifyVars, overlayVars, cursorVars, start_idx, row_i, slide, encVars, fails, calls,
                   frames, runHist>>

\* the head of the loop body for Row i: set_current_era(era); the slide is composed
MainRowBegin ==
    /\ pc = "loop" /\ row_i < Total
    /\ slide' = SlideImg(row_i)
    /\ processed' = Append(processed, row_i)
    /\ SetCurrentEra(rows[row_i + 1].era)
    /\ OverlayStep(row_i)
    /\ NotifyStep(row_i)
    /\ pc' = "xfade"
    /\ UNCHANGED <<audio_stop, feederVars, decVars, fifoReader, inputVars, cursorVars, start_idx, row_i, prev_img, encVars, fails,
                   sendVars, calls, frames, callHist, cursorLog, persistFailed>>

MainRowCrossfade_Swapped ==
    /\ pc = "xfade"
    /\ IF prev_img # NoImg
       THEN CallSendCrossfade(slide, prev_img, CROSSFADE_DURATION, "hold")
       ELSE pc' = "hold" /\ UNCHANGED <<sendVars, callHist>>
    /\ UNCHANGED <<audioVars, inputVars, notifyVars, overlayVars, cursorVars, mainVars, encVars, fails, calls, frames, runHist>>

\* if prev_img is not None: send_crossfade(prev_img, slide, CROSSFADE_DURATION)
MainRowCrossfade ==
    /\ pc = "xfade"
    /\ IF prev_img # NoImg
       THEN CallSendCrossfade(prev_img, slide, CROSSFADE_DURATION, "hold")
       ELSE pc' = "hold" /\ UNCHANGED <<sendVars, callHist>>
    /\ UNCHANGED <<audioVars, inputVars, notifyVars, overlayVars, cursorVars, mainVars, encVars, fails, calls, frames, runHist>>

\* a loop body that goes on to persist the cursor without its send_frame
MainRowHold_Skipped ==
    /\ pc = "hold"
    /\ pc' = "persist"
    /\ UNCHANGED <<audioVars, inputVars, notifyVars, overlayVars, cursorVars, mainVars, encVars,
                   fails, calls, frames, runHist, sendVars, callHist>>

\* send_frame(slide, dur)
MainRowHold ==
    /\ pc = "hold"
    /\ CallSendFrame(slide, HoldDuration(durs, rows[row_i + 1]), "persist")
    /\ UNCHANGED <<audioVars, inputVars, notifyVars, overlayVars, cursorVars, mainVars, encVars, fails, calls, frames, runHist>>

\* the value written to last_index.txt after Row i
CursorWritten_Count(i) == i + 1
CursorWritten(i) == i

\* prev_img = slide; last_index.txt is written ("ok"), cannot be opened ("open"), or
\* is truncated by open() and the write fails ("write"); the loop moves to i + 1
RowPersist(outcomes) ==
    /\ pc = "persist"
    /\ prev_img' = slide
    /\ \E outcome \in outcomes :
          /\ cursorKind' = IF outcome = "ok" THEN "int"
                           ELSE IF outcome = "write" THEN "garbage" ELSE cursorKind
          /\ cursorVal' = IF outcome = "ok" THEN CursorWritten(row_i)
                          ELSE IF outcome = "write" THEN 0 ELSE cursorVal
          /\ cursorLog' = IF outcome = "ok" THEN Append(cursorLog, CursorWritten(row_i))
                          ELSE cursorLog
          /\ persistFailed' = (persistFailed \/ outcome # "ok")
    /\ row_i' = row_i + 1
    /\ pc' = "loop"
    /\ UNCHANGED <<audioVars, inputVars, notifyVars, overlayVars, start_idx, slide, encVars, fails, sendVars, calls, frames,
                   callHist, processed>>

MainRowPersist == RowPersist({"ok", "open", "write"})

\* the loop is exhausted; if prev_img is not None: send_crossfade(prev_img, outro, ...)
MainOutroCrossfade ==
    /\ pc = "loop" /\ row_i >= Total
    /\ IF prev_img # NoImg
       THEN CallSendCrossfade(prev_img, OutroImg, CROSSFADE_DURATION, "outro")
       ELSE pc' = "outro" /\ UNCHANGED <<sendVars, callHist>>
    /\ UNCHANGED <<audioVars, inputVars, notifyVars, overlayVars, cursorVars, mainVars, encVars, fails, calls, frames, runHist>>

\* send_frame(outro, INTRO_OUTRO_DURATION)
MainOutroHold ==
    /\ pc = "outro"
    /\ CallSendFrame(OutroImg, INTRO_OUTRO_DURATION, "cleanup")
    /\ UNCHANGED <<audioVars, inputVars, notifyVars, overlayVars, cursorVars, mainVars, encVars, fails, calls, frames, runHist>>

\* a cleanup that runs before the Outro hold
MainCleanup_Early ==
    /\ pc = "outro"
    /\ \E lingers \in BOOLEAN : StopFfmpeg(lingers)
    /\ audio_stop' = TRUE
    /\ audio_decoder_proc' = NoProc
    /\ pc' = "done"
    /\ UNCHANGED <<eraVars, feederVars, decLive, decTerm, spawns, fifoReader, inputVars, notifyVars, overlayVars, cursorVars, mainVars, fails, sendVars, calls, frames, callHist,
                   runHist>>

\* stop_ffmpeg(); stop_audio_thread(); stop_discord_thread().  The feeder thread is
\* not scheduled in Spec, so stop_decoder_proc() finds no decoder.
MainCleanup ==
    /\ pc = "cleanup"
    /\ \E lingers \in BOOLEAN : StopFfmpeg(lingers)
    /\ audio_stop' = TRUE
    /\ audio_decoder_proc' = NoProc
    /\ pc' = "done"
    /\ UNCHANGED <<eraVars, feederVars, decLive, decTerm, spawns, fifoReader, inputVars, notifyVars, overlayVars, cursorVars, mainVars, fails, sendVars, calls, frames, callHist,
                   runHist>>

Init ==
    /\ \E inst \in Installations :
          /\ rows = inst.rows /\ durs = inst.durs
          /\ \/ cursorKind \in {"absent", "garbage"} /\ cursorVal = 0
             \/ cursorKind = "int" /\ cursorVal \in 0..(Len(inst.rows) - 1)
    /\ boot = <<cursorKind, cursorVal>>
    /\ pc = "load"
    /\ fpc = "off" /\ fifoReader = FALSE
    /\ discord_mode = "all" /\ discord_url = FALSE
    /\ overlay_promos = <<Overlay("promo", 1, TRUE)>>
    /\ overlay_sponsors = <<Overlay("sponsor", 1, TRUE)>>
    /\ InitCommon

Next ==
    \/ MainLoad \/ MainIntro
    \/ MainRowBegin \/ MainRowCrossfade \/ MainRowHold \/ MainRowPersist
    \/ MainOutroCrossfade \/ MainOutroHold \/ MainCleanup
    \/ SendSteps

Spec == Init /\ [][Next]_vars

(* ------------------------------ Audio Feeder --------------------------- *)
\* the processes alive after wait(timeout=2) on process p; exits: p ends in time
DecLiveAfterWait(p, exits) == IF p # NoProc /\ exits THEN decLive \ {p} ELSE decLive
\* the live processes that were sent terminate(), after wait(timeout=2) on p
DecTermAfterWait(p, exits) == IF p # NoProc /\ exits THEN decTerm \ {p} ELSE decTerm

\* open(AUDIO_FIFO_PATH, "wb") returns once a reader has the FIFO open
FeederOpen ==
    /\ fpc = "open" /\ fifoReader
    /\ fpc' = "loop"
    /\ current_file' = NoFile
    /\ UNCHANGED <<inputVars, notifyVars, overlayVars, cursorVars, pc, mainVars, encVars, fails, sendVars, calls,
                   frames, callHist, runHist, eraVars, audio_stop, decVars, fifoReader,
                   f_era, music_file, f_after, missing_reported, started, resolveHist>>

\* while not _audio_stop.is_set()
FeederLoopTest ==
    /\ fpc = "loop"
    /\ fpc' = IF audio_stop THEN "exited" ELSE "pick"
    /\ UNCHANGED <<inputVars, notifyVars, overlayVars, cursorVars, pc, mainVars, encVars, fails, sendVars, calls,
                   frames, callHist, runHist, eraVars, audio_stop, decVars, fifoReader,
                   f_era, music_file, current_file, f_after, missing_reported, started, resolveHist>>

\* whether the feeder replaces its decoder
MustSwitch_Always(wanted, current) == TRUE
MustSwitch_Never(wanted, current) == FALSE
MustSwitch(wanted, current) == wanted # current

\* era = _current_era (under the lock); music_file = pick_music_for_era(era);
\* if music_file != current_file
FeederPick ==
    /\ fpc = "pick"
    /\ f_era' = current_era
    /\ music_file' = pick_music_for_era(current_era)
    /\ missing_reported' = ReportedAfterPick(current_era, missing_reported)
    /\ diagnostics' = DiagnosticsAfterPick(current_era, missing_reported, diagnostics)
    /\ IF MustSwitch(pick_music_for_era(current_era), current_file)
       THEN fpc' = "stop_check" /\ f_after' = "spawn"
       ELSE fpc' = "pump" /\ f_after' = f_after
    /\ UNCHANGED <<inputVars, notifyVars, overlayVars, cursorVars, pc, mainVars, encVars, fails, sendVars, calls,
                   frames, callHist, runHist, eraVars, audio_stop, decVars, fifoReader,
                   current_file, started, resolved>>

\* current_file after the decoder gave no bytes: current_file = None
FileAfterFault_Keep(current) == current
FileAfterFault(current) == NoFile

\* where the feeder goes when its stop_decoder_proc() returns
AfterStop == IF f_after = "spawn" THEN "spawn" ELSE "loop"

\* stop_decoder_proc() in the feeder: if _audio_decoder_proc is not None: terminate()
FeederStopCheck ==
    /\ fpc = "stop_check"
    /\ IF audio_decoder_proc # NoProc
       THEN /\ decTerm' = decTerm \cup ({audio_decoder_proc} \cap decLive)
            /\ fpc' = "stop_wait"
            /\ UNCHANGED <<current_file, f_after>>
       ELSE /\ decTerm' = decTerm
            /\ fpc' = AfterStop
            /\ current_file' = IF f_after = "spawn" THEN current_file ELSE FileAfterFault(current_file)
            /\ f_after' = "none"
    /\ UNCHANGED <<inputVars, notifyVars, overlayVars, cursorVars, pc, mainVars, encVars, fails, sendVars, calls,
                   frames, callHist, runHist, eraVars, audio_stop, fifoReader,
                   audio_decoder_proc, decLive, spawns,
                   f_era, music_file, missing_reported, started, resolveHist>>

\* wait(timeout=2), every exception swallowed; _audio_decoder_proc = None
FeederStopWait ==
    /\ fpc = "stop_wait"
    /\ \E exits \in BOOLEAN :
          /\ decLive' = DecLiveAfterWait(audio_decoder_proc, exits)
          /\ decTerm' = DecTermAfterWait(audio_decoder_proc, exits)
    /\ audio_decoder_proc' = NoProc
    /\ fpc' = AfterStop
    /\ current_file' = IF f_after = "spawn" THEN current_file ELSE FileAfterFault(current_file)
    /\ f_after' = "none"
    /\ UNCHANGED <<inputVars, notifyVars, overlayVars, cursorVars, pc, mainVars, encVars, fails, sendVars, calls,
                   frames, callHist, runHist, eraVars, audio_stop, fifoReader,
                   spawns, f_era, music_file, missing_reported, started, resolveHist>>

\* _audio_decoder_proc = subprocess.Popen([... music_file ...]); current_file = music_file
FeederSpawn ==
    /\ fpc = "spawn" /\ spawns < MaxSpawn
    /\ spawns' = spawns + 1
    /\ decLive' = decLive \cup {spawns + 1}
    /\ audio_decoder_proc' = spawns + 1
    /\ started' = Append(started, [from |-> current_file, to |-> music_file, n |-> setCount])
    /\ current_file' = music_file
    /\ fpc' = "pump"
    /\ UNCHANGED <<inputVars, notifyVars, overlayVars, cursorVars, pc, mainVars, encVars, fails, sendVars, calls,
                   frames, callHist, runHist, eraVars, audio_stop, fifoReader,
                   decTerm, f_era, music_file, f_after, missing_reported, resolveHist>>

\* subprocess.Popen raises (no ffmpeg binary, no process slot): nothing catches it
FeederSpawnRaises ==
    /\ fpc = "spawn"
    /\ fpc' = "raised"
    /\ UNCHANGED <<inputVars, notifyVars, overlayVars, cursorVars, pc, mainVars, encVars, fails, sendVars, calls,
                   frames, callHist, runHist, eraVars, audio_stop, decVars, fifoReader,
                   f_era, music_file, current_file, f_after, missing_reported, started, resolveHist>>

\* if _audio_decoder_proc and _audio_decoder_proc.stdout: ... else: time.sleep(0.05)
FeederPumpCheck ==
    /\ fpc = "pump"
    /\ fpc' = IF audio_decoder_proc # NoProc THEN "read" ELSE "loop"
    /\ UNCHANGED <<inputVars, notifyVars, overlayVars, cursorVars, pc, mainVars, encVars, fails, sendVars, calls,
                   frames, callHist, runHist, eraVars, audio_stop, decVars, fifoReader,
                   f_era, music_file, current_file, f_after, missing_reported, started, resolveHist>>

\* chunk = _audio_decoder_proc.stdout.read(8192): the handle is read again; None has
\* no stdout (AttributeError, uncaught); a dead decoder yields b"" and the feeder
\* goes to stop_decoder_proc(); current_file = None; continue
FeederRead ==
    /\ fpc = "read"
    /\ IF audio_decoder_proc = NoProc
       THEN fpc' = "raised" /\ f_after' = f_after
       ELSE IF audio_decoder_proc \in decLive
       THEN fpc' = "write" /\ f_after' = f_after
       ELSE fpc' = "stop_check" /\ f_after' = "loop"
    /\ UNCHANGED <<inputVars, notifyVars, overlayVars, cursorVars, pc, mainVars, encVars, fails, sendVars, calls,
                   frames, callHist, runHist, eraVars, audio_stop, decVars, fifoReader,
                   f_era, music_file, current_file, missing_reported, started, resolveHist>>

\* where the feeder continues when fifo_out.write(chunk) raises BrokenPipeError
AfterBrokenPipe_Quit == "exited"
AfterBrokenPipe == "sleep"

\* fifo_out.write(chunk): with a reader on the FIFO the chunk is delivered; with none
\* the write raises BrokenPipeError, which is caught
FeederWrite ==
    /\ fpc = "write"
    /\ fpc' = IF fifoReader THEN "loop" ELSE AfterBrokenPipe
    /\ UNCHANGED <<inputVars, notifyVars, overlayVars, cursorVars, pc, mainVars, encVars, fails, sendVars, calls,
                   frames, callHist, runHist, eraVars, audio_stop, decVars, fifoReader,
                   f_era, music_file, current_file, f_after, missing_reported, started, resolveHist>>

\* except BrokenPipeError: time.sleep(0.2), and the loop goes on
FeederSleep ==
    /\ fpc = "sleep"
    /\ fpc' = "loop"
    /\ UNCHANGED <<inputVars, notifyVars, overlayVars, cursorVars, pc, mainVars, encVars, fails, sendVars, calls,
                   frames, callHist, runHist, eraVars, audio_stop, decVars, fifoReader,
                   f_era, music_file, current_file, f_after, missing_reported, started, resolveHist>>

\* the decoder ends unexpectedly
DecoderFault ==
    /\ audio_decoder_proc \in decLive
    /\ decLive' = decLive \ {audio_decoder_proc}
    /\ decTerm' = decTerm \ {audio_decoder_proc}
    /\ UNCHANGED <<inputVars, notifyVars, overlayVars, cursorVars, pc, mainVars, encVars, fails, sendVars, calls,
                   frames, callHist, runHist, eraVars, audio_stop, fifoReader, feederVars,
                   audio_decoder_proc, spawns>>

\* a decoder that was sent terminate() exits
DecoderExits ==
    /\ \E p \in decTerm : decLive' = decLive \ {p} /\ decTerm' = decTerm \ {p}
    /\ UNCHANGED <<inputVars, notifyVars, overlayVars, cursorVars, pc, mainVars, encVars, fails, sendVars, calls,
                   frames, callHist, runHist, eraVars, audio_stop, fifoReader, feederVars,
                   audio_decoder_proc, spawns>>

FeederSteps ==
    \/ FeederOpen \/ FeederLoopTest \/ FeederPick
    \/ FeederStopCheck \/ FeederStopWait \/ FeederSpawn \/ FeederSpawnRaises
    \/ FeederPumpCheck \/ FeederRead \/ FeederWrite \/ FeederSleep
    \/ DecoderFault \/ DecoderExits

(* ------------- the main thread as the Audio Feeder sees it ------------- *)
\* start_audio_thread(); start_ffmpeg(): the feeder thread exists and the encoder
\* opens the FIFO for reading
AudioStart ==
    /\ pc = "a_start"
    /\ pc' = "a_rows"
    /\ fifoReader' = TRUE
    /\ UNCHANGED <<inputVars, notifyVars, overlayVars, cursorVars, mainVars, encVars, fails, sendVars, calls,
                   frames, callHist, runHist, eraVars, audio_stop, decVars, feederVars>>

\* the loop body of main for the next Row: set_current_era(era)
AudioSetEra ==
    /\ pc = "a_rows" /\ setCount < Total
    /\ SetCurrentEra(rows[setCount + 1].era)
    /\ UNCHANGED <<inputVars, notifyVars, overlayVars, cursorVars, pc, mainVars, encVars, fails, sendVars, calls,
                   frames, callHist, runHist, audio_stop, decVars, feederVars, fifoReader>>

\* the encoder dies and restart_ffmpeg() starts another: the FIFO loses its reader
\* and gets one again
EncoderReaderLost ==
    /\ pc = "a_rows" /\ fifoReader
    /\ fifoReader' = FALSE
    /\ UNCHANGED <<inputVars, notifyVars, overlayVars, cursorVars, pc, mainVars, encVars, fails, sendVars, calls,
                   frames, callHist, runHist, eraVars, audio_stop, decVars, feederVars>>

EncoderReaderBack ==
    /\ pc = "a_rows" /\ ~fifoReader
    /\ fifoReader' = TRUE
    /\ UNCHANGED <<inputVars, notifyVars, overlayVars, cursorVars, pc, mainVars, encVars, fails, sendVars, calls,
                   frames, callHist, runHist, eraVars, audio_stop, decVars, feederVars>>

\* cleanup of main: stop_ffmpeg() (the FIFO loses its reader unless the encoder
\* lingers), then stop_audio_thread(): _audio_stop.set()
AudioStopSet ==
    /\ pc = "a_rows" /\ setCount = Total
    /\ \E lingers \in BOOLEAN : fifoReader' = (fifoReader /\ lingers)
    /\ audio_stop' = TRUE
    /\ pc' = "a_stop_check"
    /\ UNCHANGED <<inputVars, notifyVars, overlayVars, cursorVars, mainVars, encVars, fails, sendVars, calls,
                   frames, callHist, runHist, eraVars, decVars, feederVars>>

\* stop_decoder_proc() in the main thread: if _audio_decoder_proc is not None:
\* terminate()
AudioStopCheck ==
    /\ pc = "a_stop_check"
    /\ IF audio_decoder_proc # NoProc
       THEN decTerm' = decTerm \cup ({audio_decoder_proc} \cap decLive) /\ pc' = "a_stop_wait"
       ELSE decTerm' = decTerm /\ pc' = "a_done"
    /\ UNCHANGED <<inputVars, notifyVars, overlayVars, cursorVars, mainVars, encVars, fails, sendVars, calls,
                   frames, callHist, runHist, eraVars, audio_stop, fifoReader, feederVars,
                   audio_decoder_proc, decLive, spawns>>

\* wait(timeout=2) on the handle as it is now, every exception swallowed
AudioStopWait ==
    /\ pc = "a_stop_wait"
    /\ \E exits \in BOOLEAN :
          /\ decLive' = DecLiveAfterWait(audio_decoder_proc, exits)
          /\ decTerm' = DecTermAfterWait(audio_decoder_proc, exits)
    /\ pc' = "a_stop_clear"
    /\ UNCHANGED <<inputVars, notifyVars, overlayVars, cursorVars, mainVars, encVars, fails, sendVars, calls,
                   frames, callHist, runHist, eraVars, audio_stop, fifoReader, feederVars,
                   audio_decoder_proc, spawns>>

\* _audio_decoder_proc = None
AudioStopClear ==
    /\ pc = "a_stop_clear"
    /\ audio_decoder_proc' = NoProc
    /\ pc' = "a_done"
    /\ UNCHANGED <<inputVars, notifyVars, overlayVars, cursorVars, mainVars, encVars, fails, sendVars, calls,
                   frames, callHist, runHist, eraVars, audio_stop, fifoReader, feederVars,
                   decLive, decTerm, spawns>>

\* the topic sequences of the rows fed to the Audio Feeder
TopicRows ==
    { << Row(StoneAge, FALSE), Row(StoneAge, FALSE), Row(BronzeAge, FALSE) >>,
      << Row(BronzeAge, FALSE), Row(TheBronzeAge, FALSE) >>,
      << Row(IronAgeRange, FALSE), Row(BlankEra, FALSE), Row(StoneAge, FALSE) >> }

InitAudio ==
    /\ rows \in TopicRows /\ durs = {}
    /\ cursorKind = "absent" /\ cursorVal = 0
    /\ boot = <<cursorKind, cursorVal>>
    /\ pc = "a_start"
    /\ fpc = "open" /\ fifoReader = FALSE
    /\ discord_mode = "all" /\ discord_url = FALSE
    /\ overlay_promos = <<>> /\ overlay_sponsors = <<>>
    /\ InitCommon

NextAudio ==
    \/ AudioStart \/ AudioSetEra \/ EncoderReaderLost \/ EncoderReaderBack
    \/ AudioStopSet \/ AudioStopCheck \/ AudioStopWait \/ AudioStopClear
    \/ FeederSteps

SpecAudio == InitAudio /\ [][NextAudio]_vars


(* ------------- the loop of main as the corner overlay sees it ---------- *)
\* the promo and sponsor pools of an installation
OverlayPools ==
    { [promos |-> <<Overlay("promo", 1, TRUE), Overlay("promo", 2, TRUE)>>,
       sponsors |-> <<Overlay("sponsor", 1, TRUE)>>],
      [promos |-> <<Overlay("promo", 1, TRUE)>>, sponsors |-> <<>>],
      [promos |-> <<>>, sponsors |-> <<Overlay("sponsor", 1, TRUE), Overlay("sponsor", 2, TRUE)>>],
      [promos |-> <<Overlay("promo", 1, FALSE)>>, sponsors |-> <<Overlay("sponsor", 1, TRUE)>>],
      [promos |-> <<>>, sponsors |-> <<>>] }

\* the Rows the loop starts at
OverlayStarts == {0, 50, 51, 100}

\* one pass of the loop body for Row i: the slide is composed and the overlay pasted
OverlayRow ==
    /\ pc = "o_loop" /\ row_i < Total
    /\ slide' = SlideImg(row_i)
    /\ OverlayStep(row_i)
    /\ prev_img' = SlideImg(row_i)
    /\ row_i' = row_i + 1
    /\ UNCHANGED <<audioVars, inputVars, notifyVars, cursorVars, pc, start_idx, encVars, fails, sendVars,
                   calls, frames, callHist, runHist>>

InitOverlay ==
    /\ rows = [k \in 1..MaxSlides |-> Row(StoneAge, FALSE)] /\ durs = {}
    /\ cursorKind = "absent" /\ cursorVal = 0
    /\ boot = <<cursorKind, cursorVal>>
    /\ pc = "o_loop"
    /\ fpc = "off" /\ fifoReader = FALSE
    /\ discord_mode = "all" /\ discord_url = FALSE
    /\ \E pools \in OverlayPools :
          overlay_promos = pools.promos /\ overlay_sponsors = pools.sponsors
    /\ start_idx \in OverlayStarts /\ row_i = start_idx
    /\ prev_img = NoImg /\ slide = NoImg
    /\ ffmpeg_proc = NoProc /\ encLive = {} /\ launches = 0 /\ fails = 0
    /\ op = "none" /\ argA = NoImg /\ argB = NoImg /\ argDur = 0
    /\ total = 0 /\ sent = 0 /\ steps = 0 /\ cf_i = 0 /\ retpc = "none"
    /\ calls = 0
    /\ frames = <<>> /\ written = 0 /\ alphaLog = <<>>
    /\ processed = <<>> /\ cursorLog = <<>> /\ persistFailed = FALSE
    /\ current_era = NoneEra /\ audio_stop = FALSE /\ audio_decoder_proc = NoProc
    /\ missing_reported = {} /\ setCount = 0
    /\ f_era = NoneEra /\ music_file = NoFile /\ current_file = NoFile /\ f_after = "none"
    /\ decLive = {} /\ decTerm = {} /\ spawns = 0
    /\ started = <<>> /\ diagnostics = <<>> /\ resolved = <<>>
    /\ overlay_cycle_idx = 0 /\ overlay_block_remaining = 0
    /\ overlay_current = NoOverlay /\ slide_overlay = NoOverlay
    /\ discord_q = 0 /\ notified = "none"

NextOverlay == OverlayRow

SpecOverlay == InitOverlay /\ [][NextOverlay]_vars

(* --------------------- corner_overlay_pick on its own ------------------ *)
\* the pool of the first n files of a folder
PoolOf(pool, n) == [k \in 1..n |-> Overlay(pool, k, TRUE)]

\* corner_overlay_pick(overlay_cycle_idx) is called and the counter moves on
PickNext ==
    /\ pc = "p_pick" /\ overlay_cycle_idx < MaxCycle
    /\ overlay_current' =
          corner_overlay_pick(overlay_cycle_idx, overlay_promos, overlay_sponsors)
    /\ overlay_cycle_idx' = overlay_cycle_idx + 1
    /\ UNCHANGED <<audioVars, inputVars, notifyVars, cursorVars, pc, mainVars, encVars, fails, sendVars,
                   calls, frames, callHist, runHist, poolVars, overlay_block_remaining,
                   slide_overlay>>

InitPick ==
    /\ rows = <<>> /\ durs = {}
    /\ cursorKind = "absent" /\ cursorVal = 0
    /\ boot = <<cursorKind, cursorVal>>
    /\ pc = "p_pick"
    /\ fpc = "off" /\ fifoReader = FALSE
    /\ discord_mode = "all" /\ discord_url = FALSE
    /\ \E np \in 0..MaxPool, ns \in 0..MaxPool :
          overlay_promos = PoolOf("promo", np) /\ overlay_sponsors = PoolOf("sponsor", ns)
    /\ InitCommon

NextPick == PickNext

SpecPick == InitPick /\ [][NextPick]_vars

(* ---------------------- pick_music_for_era on its own ------------------ *)
IceAge == Topic(0, "Ice Age", FALSE, "")
IceAgeRange == Topic(0, "Ice Age", FALSE, "2.6M-11.7K BC")
\* the topics the resolver is called with
ResolveTopics ==
    { NoneEra, BlankEra, StoneAge, BronzeAge, TheBronzeAge, IronAgeRange, IceAge, IceAgeRange }

\* pick_music_for_era(era_name) is called
ResolveCall ==
    /\ pc = "r_call" /\ calls < MaxResolve
    /\ calls' = calls + 1
    /\ \E era_name \in ResolveTopics :
          /\ f_era' = era_name
          /\ music_file' = pick_music_for_era(era_name)
          /\ missing_reported' = ReportedAfterPick(era_name, missing_reported)
          /\ diagnostics' = DiagnosticsAfterPick(era_name, missing_reported, diagnostics)
          /\ resolved' = Append(resolved, [era |-> era_name,
                                            path |-> pick_music_for_era(era_name)])
    /\ UNCHANGED <<inputVars, notifyVars, overlayVars, cursorVars, pc, mainVars, encVars, fails, sendVars,
                   frames, callHist, runHist, eraVars, audio_stop, decVars, fifoReader,
                   fpc, current_file, f_after, started>>

InitResolve ==
    /\ rows = <<>> /\ durs = {}
    /\ cursorKind = "absent" /\ cursorVal = 0
    /\ boot = <<cursorKind, cursorVal>>
    /\ pc = "r_call"
    /\ fpc = "off" /\ fifoReader = FALSE
    /\ discord_mode = "all" /\ discord_url = FALSE
    /\ overlay_promos = <<>> /\ overlay_sponsors = <<>>
    /\ InitCommon

NextResolve == ResolveCall

SpecResolve == InitResolve /\ [][NextResolve]_vars

(* ---------------- the run as the notification queue sees it ------------- *)
\* _discord_worker: _discord_q.get(timeout=0.2) returns an item; the worker runs while
\* Discord is enabled and _discord_stop is not set
DiscordWorkerGet ==
    /\ DISCORD_ENABLE /\ pc # "done"
    /\ discord_q > 0
    /\ discord_q' = discord_q - 1
    /\ UNCHANGED <<audioVars, inputVars, overlayVars, cursorVars, pc, mainVars, encVars, fails,
                   sendVars, calls, frames, callHist, runHist, discordCfg, notified>>

\* the end of the loop body with a cursor file that can be written
NotifyRowPersist == RowPersist({"ok"})

\* Rows 2 and 3 are special; "Stone Age" is held for 0.1 s
NotifyRows == [k \in 1..MaxRows |-> Row(StoneAge, k \in {2, 3})]

InitNotify ==
    /\ rows = NotifyRows /\ durs = { [key |-> StoneAge, ms |-> 100] }
    /\ cursorKind = "absent" /\ cursorVal = 0
    /\ boot = <<cursorKind, cursorVal>>
    /\ pc = "load"
    /\ fpc = "off" /\ fifoReader = FALSE
    /\ discord_mode \in {"all", "special", "none"} /\ discord_url \in BOOLEAN
    /\ overlay_promos = <<>> /\ overlay_sponsors = <<>>
    /\ InitCommon

NextNotify ==
    \/ MainLoad \/ MainIntro
    \/ MainRowBegin \/ MainRowCrossfade \/ MainRowHold \/ NotifyRowPersist
    \/ MainOutroCrossfade \/ MainOutroHold \/ MainCleanup
    \/ FrameWrite \/ FrameReturn \/ CrossfadeWrite \/ CrossfadeReturn
    \/ DiscordWorkerGet

SpecNotify == InitNotify /\ [][NextNotify]_vars

(* ------------- the whole program: main, feeder and poster -------------- *)
\* whether stop_audio_thread() waits for the feeder thread ("don't join forever")
JoinsFeeder_Always == TRUE
JoinsFeeder == FALSE

\* main up to start_discord_thread() with the feeder thread started:
\* start_audio_thread(), then start_ffmpeg()
LiveLoad ==
    /\ pc = "load"
    /\ start_idx' = ResumeIndex(cursorKind, cursorVal)
    /\ row_i' = ResumeIndex(cursorKind, cursorVal)
    /\ fpc' = "open"
    /\ \E ok \in BOOLEAN :
          /\ StartFfmpeg(ok)
          /\ pc' = IF ok THEN "intro" ELSE "crashed"
    /\ UNCHANGED <<inputVars, notifyVars, overlayVars, cursorVars, prev_img, slide, fails,
                   sendVars, calls, frames, callHist, runHist, eraVars, audio_stop, decVars,
                   fifoReader, f_era, music_file, current_file, f_after, missing_reported,
                   started, resolveHist>>

\* the encoder opens the FIFO for reading
LiveReaderBack ==
    /\ ffmpeg_proc # NoProc /\ ~fifoReader
    /\ fifoReader' = TRUE
    /\ UNCHANGED <<inputVars, notifyVars, overlayVars, cursorVars, pc, mainVars, encVars, fails,
                   sendVars, calls, frames, callHist, runHist, eraVars, audio_stop, decVars,
                   feederVars>>

\* cleanup of main: stop_ffmpeg() (the FIFO loses its reader unless the encoder
\* lingers), then stop_audio_thread(): _audio_stop.set(), and stop_decoder_proc()
\* follows
LiveCleanup ==
    /\ pc = "cleanup"
    /\ JoinsFeeder => fpc \in {"exited", "raised"}
    /\ \E lingers \in BOOLEAN :
          /\ StopFfmpeg(lingers)
          /\ fifoReader' = (fifoReader /\ lingers)
    /\ audio_stop' = TRUE
    /\ pc' = "a_stop_check"
    /\ UNCHANGED <<inputVars, notifyVars, overlayVars, cursorVars, mainVars, fails, sendVars,
                   calls, frames, callHist, runHist, eraVars, decVars, feederVars>>

\* the steps of the main thread that need nothing but the main thread
MainProgress ==
    \/ LiveLoad \/ MainIntro
    \/ MainRowBegin \/ MainRowCrossfade \/ MainRowHold \/ NotifyRowPersist
    \/ MainOutroCrossfade \/ MainOutroHold \/ LiveCleanup
    \/ AudioStopCheck \/ AudioStopWait \/ AudioStopClear
    \/ FrameWrite \/ FrameReturn \/ CrossfadeWrite \/ CrossfadeReturn

LiveRows == << Row(StoneAge, FALSE) >>

\* the run has one write failure and one decoder spawn left to it
InitLive ==
    /\ rows = LiveRows
    /\ durs = { [key |-> StoneAge, ms |-> 100] }
    /\ cursorKind = "absent" /\ cursorVal = 0
    /\ boot = <<cursorKind, cursorVal>>
    /\ pc = "load"
    /\ fpc = "off" /\ fifoReader = FALSE
    /\ discord_mode = "all" /\ discord_url = TRUE
    /\ overlay_promos = <<>> /\ overlay_sponsors = <<>>
    /\ InitGlobals /\ fails = MaxFail - 1 /\ spawns = MaxSpawn - 1

\* the poster thread takes nothing from its queue
NextLive ==
    \/ MainProgress
    \/ FrameWriteFails \/ CrossfadeWriteFails \/ RestartRaises \/ OrphanExits
    \/ LiveReaderBack
    \/ FeederSteps

\* the main thread is always scheduled; the feeder, the decoders and the encoder's
\* faults are not
SpecLive == InitLive /\ [][NextLive]_vars /\ WF_vars(MainProgress)

(* ------------- the topic cell between Sequencer and Feeder -------------- *)
\* the steps of the feeder thread itself, but for the pick
FeederThread ==
    \/ FeederOpen \/ FeederLoopTest
    \/ FeederStopCheck \/ FeederStopWait \/ FeederSpawn \/ FeederSpawnRaises
    \/ FeederPumpCheck \/ FeederRead \/ FeederWrite \/ FeederSleep

TopicRows2 == << Row(StoneAge, FALSE), Row(BronzeAge, FALSE) >>

\* a run of two Rows with no failed write; the feeder has two decoder spawns to it
InitTopic ==
    /\ rows = TopicRows2
    /\ durs = { [key |-> StoneAge, ms |-> 100], [key |-> TheBronzeAge, ms |-> 100] }
    /\ cursorKind = "absent" /\ cursorVal = 0
    /\ boot = <<cursorKind, cursorVal>>
    /\ pc = "load"
    /\ fpc = "off" /\ fifoReader = FALSE
    /\ discord_mode = "all" /\ discord_url = FALSE
    /\ overlay_promos = <<>> /\ overlay_sponsors = <<>>
    /\ InitGlobals /\ fails = MaxFail /\ spawns = MaxSpawn - 2

\* no decoder ends by itself
NextTopic ==
    \/ MainProgress
    \/ LiveReaderBack
    \/ FeederThread \/ FeederPick

\* the feeder thread is scheduled fairly, the main thread is not; the pick is enabled
\* exactly while fpc = "pick" and leaves it, so its weak fairness is that the feeder is
\* again and again somewhere else
SpecTopic ==
    InitTopic /\ [][NextTopic]_vars /\ WF_vars(FeederThread) /\ []<>(fpc # "pick")

(* ======================================================================= *)
(* Properties                                                              *)
(* ======================================================================= *)
AtFrameReturn == pc = "send" /\ op = "frame" /\ sent >= total
AtCrossfadeReturn == pc = "send" /\ op = "xfade" /\ cf_i >= steps

\* C1: when a send_frame(img, duration) call that found an encoder session returns,
\* the number of successful frame writes it made is exactly round(FPS * duration),
\* whatever writes failed and restarted the encoder on the way.
C1_ExactTicks ==
    AtFrameReturn => written = RoundHalfEven(FPS * argDur, 1000)

\* the first call of a client, a 3.0 s hold (90 ticks), returns after one failed
\* write and the restart
C1_Witness ==
    AtFrameReturn /\ argDur = 3000 /\ calls = 2 /\ fails = 1 /\ written = 90

\* C2: the blends a send_crossfade call writes carry the alpha numerators 0, 1, 2, ...
\* in this order with none repeated or skipped, whatever writes failed, and when the
\* call returns there are exactly `steps` of them.
C2_BlendSteps ==
    op = "xfade" =>
        /\ \A k \in 1..Len(alphaLog) : alphaLog[k] = k - 1
        /\ Len(alphaLog) <= CrossfadeSteps(argDur)
        /\ AtCrossfadeReturn => Len(alphaLog) = CrossfadeSteps(argDur)

\* the first call of a client, a 0.5 s crossfade (15 steps), returns after one
\* failed write and the restart
C2_Witness ==
    AtCrossfadeReturn /\ argDur = 500 /\ calls = 2 /\ fails = 1 /\ Len(alphaLog) = 15

\* C3: with a persisted cursor k the first Row processed is Row k+1; with no cursor
\* file, or one that cannot be parsed, it is Row 0.
C3_ResumeAfterCursor ==
    (pc = "xfade" /\ Len(processed) = 1) =>
        processed[1] = (IF boot[1] = "int" THEN boot[2] + 1 ELSE 0)

\* C4: in a run with no persistence failure every cursor write stores the previously
\* written value plus one, and a run that started at Row 0 with no cursor has, after
\* Rows 0..k, the persisted cursor k.
C4_CursorMonotone ==
    ~persistFailed =>
        /\ \A n \in 2..Len(cursorLog) : cursorLog[n] = cursorLog[n - 1] + 1
        /\ (boot[1] # "int" /\ cursorLog # <<>>) => cursorLog[1] = 0
        /\ (boot[1] # "int" /\ pc = "loop" /\ row_i > 0) =>
               cursorKind = "int" /\ cursorVal = row_i - 1

\* Rows 0..2 were processed from an absent cursor and the cursor is 2
C4_Witness ==
    /\ boot[1] = "absent" /\ ~persistFailed
    /\ pc = "loop" /\ row_i = 3 /\ cursorLog = <<0, 1, 2>>
    /\ cursorKind = "int" /\ cursorVal = 2

IsRowHold(e) == e.kind = "hold" /\ e.a[1] = "row"
RowHolds == SelectSeq(frames, IsRowHold)

C6_SingleEncoder == Cardinality(encLive) <= 1

\* C7: at most one decoder process started by the Audio Feeder is alive.
C7_SingleDecoder == Cardinality(decLive) <= 1

StoneTrack == "Stone Age.mp3"
BronzeTrack == "The Bronze Age.mp3"
StoneStoneBronze == << Row(StoneAge, FALSE), Row(StoneAge, FALSE), Row(BronzeAge, FALSE) >>
\* the decoder starts that replaced the decoder of track t
SwitchesFrom(t) == { k \in 1..Len(started) : started[k].from = t }

C9_DecoderTornDown ==
    (fpc = "exited" /\ pc = "a_done") => decLive \subseteq decTerm

\* C10: the feeder never raises; its loop ends only because the stop signal was set.
C10_FeederNeverRaises ==
    /\ fpc # "raised"
    /\ fpc = "exited" => audio_stop

\* C11: when the write to the audio FIFO fails with BrokenPipeError the feeder does
\* not end and does not touch its decoder: the step leaves the decoder handle, the
\* decoder processes and current_file as they are, the feeder sleeps and goes back to
\* the head of its loop, and a write made while a reader holds the FIFO is delivered.
C11_BrokenPipeRetried ==
    [][ /\ (fpc = "write" /\ fpc' # "write") =>
             /\ fpc' = (IF fifoReader THEN "loop" ELSE "sleep")
             /\ UNCHANGED <<audio_decoder_proc, decLive, decTerm, spawns, current_file>>
        /\ (fpc = "sleep" /\ fpc' # "sleep") =>
             /\ fpc' = "loop"
             /\ UNCHANGED <<audio_decoder_proc, decLive, decTerm, spawns, current_file>>
      ]_vars

\* a write of the Stone Age decoder's chunk failed while the encoder was away; the
\* feeder sleeps with its decoder running, and the encoder is back on the FIFO
C11_Witness ==
    /\ fpc = "sleep" /\ fifoReader /\ ~audio_stop
    /\ audio_decoder_proc \in decLive /\ current_file = StoneTrack

\* C12: a running send_frame / send_crossfade call is left only by its normal return
\* to the caller: no failed write, and no restart that cannot launch a process, ends
\* the call early or ends the run.
C12_SendNeverPropagates ==
    [][pc = "send" => pc' \in {"send", retpc}]_vars

\* the override entries of m for a topic: keyed by the topic without its range, tried
\* with and without a leading "The "
OverridesFor(m, era) ==
    LET base == BaseEra(StripEra(era))
    IN  { e \in m : /\ e.key.stem = base.stem /\ e.key.era = base.era /\ e.key.qual = ""
                    /\ e.key.the \in {base.the - 1, base.the, base.the + 1} }
\* the hold the Row is to get: its override if one exists, else the base duration,
\* raised to the floor if the Row is special
StatedHold(m, row) ==
    LET v == IF OverridesFor(m, row.era) # {}
             THEN (CHOOSE e \in OverridesFor(m, row.era) : TRUE).ms
             ELSE SLIDE_DURATION
    IN  IF row.special THEN Max(v, SPECIAL_MIN_DURATION) ELSE v

\* C13: the hold of every Row lasts the topic's override duration when the topic has
\* one, else the base slide duration, and for a special Row the larger of that value
\* and the special floor; a Row that is not special is never raised to the floor.
C13_HoldDuration ==
    (pc = "send" /\ op = "frame" /\ argA[1] = "row") =>
        argDur = StatedHold(durs, rows[row_i + 1])

\* every image of both pools can be loaded
PoolsLoadable ==
    /\ \A k \in 1..Len(overlay_promos) : overlay_promos[k].ok
    /\ \A k \in 1..Len(overlay_sponsors) : overlay_sponsors[k].ok
\* the number (1-indexed) of the slide composed last
SlideNo == row_i

PickedFor == overlay_cycle_idx - 1
\* entry (n mod |pool|) of a pool, 0-indexed
Cycled(pool, n) == pool[(n % Len(pool)) + 1]

\* C15: corner_overlay_pick(c) is, for even c, the promo at index (c div 2) mod |promos|;
\* for odd c, the sponsor at index c div 2 while that index is within the sponsor pool
\* and the first sponsor afterwards; when the pool selected is empty, the entry of the
\* other pool at (c div 2) mod its size; and no overlay only when both pools are empty.
C15_PickRotation ==
    (pc = "p_pick" /\ overlay_cycle_idx > 0) =>
        LET c == PickedFor
            n == c \div 2
            P == overlay_promos
            S == overlay_sponsors
        IN  /\ (c % 2 = 0 /\ P # <<>>) => overlay_current = Cycled(P, n)
            /\ (c % 2 = 1 /\ S # <<>>) =>
                   overlay_current = (IF n < Len(S) THEN S[n + 1] ELSE S[1])
            /\ (c % 2 = 0 /\ P = <<>> /\ S # <<>>) => overlay_current = Cycled(S, n)
            /\ (c % 2 = 1 /\ S = <<>> /\ P # <<>>) => overlay_current = Cycled(P, n)
            /\ overlay_current = NoOverlay <=> (P = <<>> /\ S = <<>>)

\* counter 7 with two sponsors: index 3 is past the pool, the first sponsor is pinned
C15_Witness ==
    /\ pc = "p_pick" /\ PickedFor = 7
    /\ Len(overlay_sponsors) = 2 /\ Len(overlay_promos) = 3
    /\ overlay_current = Overlay("sponsor", 1, TRUE)

\* no candidate key of the topic is a key of the index
Unmatched(era_name) ==
    \A n \in 1..Len(Candidates(era_name)) : Candidates(era_name)[n] \notin MusicIndexKeys

\* C16: against a fixed index, a None or blank topic resolves to the default track; a
\* topic none of whose candidates is in the index resolves to the default track; two
\* calls with the same topic return the same path whatever calls were made between
\* them; and the not-found diagnostic is printed at most once per distinct raw topic.
C16_ResolvePure ==
    pc = "r_call" =>
        /\ \A k \in 1..Len(resolved) :
              /\ IsBlankEra(resolved[k].era) => resolved[k].path = DEFAULT_MUSIC
              /\ (~IsBlankEra(resolved[k].era) /\ Unmatched(resolved[k].era)) =>
                     resolved[k].path = DEFAULT_MUSIC
              /\ resolved[k].path # NoFile
        /\ \A j, k \in 1..Len(resolved) :
              resolved[j].era = resolved[k].era => resolved[j].path = resolved[k].path
        /\ \A j, k \in 1..Len(diagnostics) :
              j # k => diagnostics[j] # diagnostics[k]

\* "Ice Age" was resolved, then "Stone Age", then "Ice Age" again: the default track
\* both times, its own track in between, and one diagnostic
C16_Witness ==
    /\ pc = "r_call" /\ Len(resolved) = 3
    /\ resolved[1] = [era |-> IceAge, path |-> DEFAULT_MUSIC]
    /\ resolved[2] = [era |-> StoneAge, path |-> StoneTrack]
    /\ resolved[3] = [era |-> IceAge, path |-> DEFAULT_MUSIC]
    /\ diagnostics = <<IceAge>>

\* the Row in hand is between its enqueue step and the end of its loop body
InRow == pc \in {"xfade", "hold", "persist"} \/ (pc = "send" /\ retpc \in {"hold", "persist"})
\* the policy asks for a notification of Row i
PolicyWants(i) ==
    discord_mode = "all" \/ (discord_mode = "special" /\ rows[i + 1].special)
\* the last frames entry is the hold of Row i in full, and, when a Row was played
\* before it, the entry before that is the cross-dissolve into Row i in full
RowDelivered(i) ==
    LET n == Len(frames)
    IN  /\ n >= 1
        /\ frames[n] = [kind |-> "hold", a |-> SlideImg(i), b |-> SlideImg(i),
                        n |-> FrameTotal(HoldDuration(durs, rows[i + 1]))]
        /\ i > start_idx =>
              /\ n >= 2
              /\ frames[n - 1] = [kind |-> "xfade", a |-> SlideImg(i - 1), b |-> SlideImg(i),
                                  n |-> CrossfadeSteps(CROSSFADE_DURATION)]

\* C17: the enqueue step of a Row can always be taken, whatever the queue holds; the
\* queue never holds more than its bound, a notification is dropped only when the
\* queue is full and queued only when it is not, and whatever became of the notification the Row's cross-dissolve
\* and hold are written in full; a notification is queued or dropped only when the
\* policy is "all", or "special" and the Row is special, and never under "none".
C17_EnqueueNeverBlocks ==
    /\ [] /\ (pc = "loop" /\ row_i < Total) => ENABLED MainRowBegin
          /\ discord_q <= QueueMax
          /\ (pc = "loop" /\ row_i > start_idx) => RowDelivered(row_i - 1)
          /\ (InRow /\ notified \in {"queued", "dropped"}) => PolicyWants(row_i)
          /\ discord_mode = "none" => (discord_q = 0 /\ notified \in {"none", "skipped"})
    /\ [][ (pc = "loop" /\ pc' = "xfade") =>
             /\ notified' = "dropped" => (discord_q = QueueMax /\ discord_q' = discord_q)
             /\ notified' = "queued" => (discord_q < QueueMax /\ discord_q' = discord_q + 1)
          ]_vars

\* with the queue full at Row 51 (index 50) its notification was dropped, and the
\* Row's cross-dissolve and hold were written all the same
C17_Witness ==
    /\ pc = "loop" /\ row_i = 51 /\ notified = "dropped" /\ discord_q = QueueMax
    /\ discord_mode = "all" /\ RowDelivered(50)

\* C18: send_crossfade writes steps = max(1, round(FPS * duration)) blends: the frame
\* rate times the duration rounded to the nearest integer, and at least 1.
C18_CrossfadeStepsRounded ==
    (pc = "send" /\ op = "xfade") => steps = Max(1, RoundHalfEven(FPS * argDur, 1000))

\* frames entry n is the cross-dissolve from image a to image b
IsDissolve(n, a, b) ==
    n \in 1..Len(frames) /\ frames[n].kind = "xfade" /\ frames[n].a = a /\ frames[n].b = b
\* frames entry n is the hold of image a
IsHold(n, a) == n \in 1..Len(frames) /\ frames[n].kind = "hold" /\ frames[n].a = a

\* C19: when a Row is played, the Intro hold is followed by a cross-dissolve from the
\* Intro frame to the first played Row's frame and the Outro hold is preceded by a
\* cross-dissolve from the last played Row's frame to the Outro frame; when no Row is
\* played no cross-dissolve is sent.
C19_TitleDissolves ==
    /\ \A n \in 1..Len(frames) :
          IsHold(n, SlideImg(start_idx)) =>
              /\ IsDissolve(n - 1, IntroImg, SlideImg(start_idx))
              /\ IsHold(n - 2, IntroImg)
    /\ \A n \in 1..Len(frames) :
          (IsHold(n, OutroImg) /\ Len(RowHolds) > 0) =>
              IsDissolve(n - 1, SlideImg(Total - 1), OutroImg)
    /\ Len(RowHolds) = 0 => \A n \in 1..Len(frames) : frames[n].kind # "xfade"

\* the state of the Sequencer: 0 Idle, 1 Intro, 2 PerRow, 3 Outro, 4 Done
SeqState ==
    IF pc = "load" THEN 0
    ELSE IF pc = "intro" \/ (pc = "send" /\ retpc = "loop") THEN 1
    ELSE IF pc \in {"loop", "xfade", "hold", "persist"}
            \/ (pc = "send" /\ retpc \in {"hold", "persist"}) THEN 2
    ELSE IF pc \in {"outro", "cleanup"}
            \/ (pc = "send" /\ retpc \in {"outro", "cleanup"}) THEN 3
    ELSE 4
\* the holds of a title frame written so far
TitleHolds(img) == { n \in 1..Len(frames) : IsHold(n, img) }

\* C20: the Sequencer goes through Idle, Intro, PerRow, Outro, Done in this order, one
\* state at a time (a run ended by an exception stops where it is); the Intro is held
\* once, before every Row frame, the Outro once, after every Row frame, and the
\* Sequencer stops the encoder only after the whole Outro hold: a finished run has
\* both title holds in full and no frame is written after the stop.
C20_SequencerOrder ==
    /\ [] /\ TitleHolds(IntroImg) \subseteq {1}
          /\ (SeqState >= 2 /\ pc # "crashed") => IsHold(1, IntroImg)
          /\ frames # <<>> => IsHold(1, IntroImg)
          /\ TitleHolds(OutroImg) \subseteq {Len(frames)}
          /\ TitleHolds(OutroImg) # {} => (SeqState >= 3 /\ row_i >= Total)
          /\ (pc \notin {"load", "done", "crashed"}) => ffmpeg_proc # NoProc
          /\ pc = "done" =>
                /\ ffmpeg_proc = NoProc
                /\ frames[1].n = FrameTotal(INTRO_OUTRO_DURATION)
                /\ IsHold(Len(frames), OutroImg)
                /\ frames[Len(frames)].n = FrameTotal(INTRO_OUTRO_DURATION)
                /\ Len(RowHolds) = Total - start_idx
    /\ [][ /\ pc' # "crashed" => SeqState' \in {SeqState, SeqState + 1}
           /\ pc = "done" => frames' = frames
         ]_vars

\* a run of two Rows finished: Intro, Row 0, dissolve, Row 1, dissolve, Outro, with
\* one failed write on the way, and the encoder stopped
C20_Witness ==
    /\ pc = "done" /\ ffmpeg_proc = NoProc /\ Total = 2 /\ start_idx = 0 /\ fails = 1
    /\ Len(frames) = 6 /\ IsHold(1, IntroImg) /\ IsHold(6, OutroImg)
    /\ frames[6].n = 180

InFaultStop == fpc \in {"stop_check", "stop_wait"} /\ f_after = "loop"

\* C22: when the read from the decoder gives zero bytes the feeder goes to
\* stop_decoder_proc() without a write to the FIFO and without touching its decoder or
\* current_file; it comes back to the head of its loop with the decoder handle
\* cleared, the decoder it held not running, and no current file; the pick that finds
\* no current file goes on to start a decoder, whatever the track; and the decoder
\* then started is a running process that was not running before, of the picked track.
C22_ZeroBytesRestart ==
    [][ /\ (fpc = "read" /\ fpc' # "read" /\ audio_decoder_proc # NoProc
                /\ audio_decoder_proc \notin decLive) =>
             /\ fpc' = "stop_check" /\ f_after' = "loop"
             /\ UNCHANGED <<audio_decoder_proc, decLive, decTerm, spawns, current_file, started>>
        /\ (InFaultStop /\ ~InFaultStop') =>
             /\ fpc' = "loop"
             /\ audio_decoder_proc' = NoProc
             /\ audio_decoder_proc \notin decLive'
             /\ current_file' = NoFile
             /\ UNCHANGED <<spawns, started>>
        /\ (fpc = "pick" /\ fpc' # "pick" /\ current_file = NoFile) =>
             fpc' = "stop_check" /\ f_after' = "spawn"
        /\ (fpc = "spawn" /\ fpc' = "pump") =>
             /\ audio_decoder_proc' \in decLive' \ decLive
             /\ current_file' = music_file
             /\ started' = Append(started, [from |-> current_file, to |-> music_file,
                                            n |-> setCount])
      ]_vars

\* the Stone Age decoder gave no bytes and the feeder started a second decoder of the
\* same track, which is running
C22_Witness ==
    /\ Len(started) = 2 /\ setCount = 1 /\ ~audio_stop
    /\ started[1] = [from |-> NoFile, to |-> StoneTrack, n |-> 1]
    /\ started[2] = [from |-> NoFile, to |-> StoneTrack, n |-> 1]
    /\ audio_decoder_proc = 2 /\ decLive = {2} /\ current_file = StoneTrack
    /\ fpc = "write"

\* C23: the step that persists the cursor after Row i either stores i or leaves the
\* persisted cursor as it was; either way it sends nothing, restarts nothing and moves
\* the Sequencer on to Row i + 1.
C23_PersistFailureHarmless ==
    [][ (pc = "persist" /\ pc' # "persist") =>
           /\ pc' = "loop" /\ row_i' = row_i + 1
           /\ UNCHANGED <<frames, ffmpeg_proc, launches, fails>>
           /\ \/ cursorKind' = "int" /\ cursorVal' = row_i
              \/ UNCHANGED cursorVars
      ]_vars

\* the overrides keyed by the topic with one leading article more or one fewer
ArticleVariants(m, era) ==
    LET base == BaseEra(StripEra(era))
    IN  { e \in m : /\ e.key.stem = base.stem /\ e.key.era = base.era /\ e.key.qual = ""
                    /\ e.key.the \in {base.the - 1, base.the + 1} /\ e.ms # 0 }
\* the overrides keyed by the topic itself, its parenthesized qualifier removed
ExactOverrides(m, era) == { e \in m : e.key = BaseEra(StripEra(era)) }

\* C24: a Row whose topic has no override under its own name but has one under the name
\* with a leading "The" added, or with its leading "The" removed, is held for that
\* override (raised to the floor if the Row is special).
C24_ArticleTolerantLookup ==
    (pc = "send" /\ op = "frame" /\ argA[1] = "row") =>
        LET row == rows[row_i + 1]
            others == ArticleVariants(durs, row.era)
        IN  (ExactOverrides(durs, row.era) = {} /\ others # {}) =>
               \E e \in others :
                  argDur = (IF row.special THEN Max(e.ms, SPECIAL_MIN_DURATION) ELSE e.ms)

\* the feeder thread is in its loop
FeederRunning == fpc \notin {"off", "open", "exited", "raised"}
\* the feeder has a running decoder of the track resolved from topic v
Decoding(v) == current_file = pick_music_for_era(v) /\ audio_decoder_proc \in decLive
\* the image a written frame shows, or dissolves into
Target(f) == IF f.kind = "xfade" THEN f.b ELSE f.a

\* C25: the topic cell is written once per Row, in one step, with the Row's topic, at
\* the head of the Row's loop body; every frame that shows or dissolves into Row r is
\* written while the cell holds Row r's topic and after exactly r - start_idx + 1
\* writes of the cell; and with the feeder thread scheduled fairly, wherever the
\* Sequencer stands, a feeder that stays in its loop has again and again a running
\* decoder of the track resolved from the value the cell holds: a value that stays in
\* the cell is decoded eventually.
C25_TopicCell ==
    /\ [](setCount = Len(processed))
    /\ [][ /\ (setCount' # setCount \/ current_era' # current_era) =>
                 /\ pc = "loop" /\ pc' = "xfade" /\ row_i < Total
                 /\ setCount' = setCount + 1
                 /\ setCount' = row_i - start_idx + 1
                 /\ current_era' = StripEra(rows[row_i + 1].era)
           /\ (frames' # frames /\ Target(frames'[Len(frames')])[1] = "row") =>
                 LET r == Target(frames'[Len(frames')])[2]
                 IN  /\ current_era = StripEra(rows[r + 1].era)
                     /\ setCount = r - start_idx + 1
          ]_vars
    /\ []<>(FeederRunning => Decoding(current_era))

\* the cell was written for Row 1, whose hold is being sent, and the feeder replaced
\* the Stone Age decoder by a running decoder of the Bronze Age track
C25_Witness ==
    /\ setCount = 2 /\ current_era = BronzeAge /\ FeederRunning /\ Decoding(BronzeAge)
    /\ Len(started) = 2 /\ started[2] = [from |-> StoneTrack, to |-> BronzeTrack, n |-> 2]
    /\ pc = "send" /\ IsHold(Len(frames), SlideImg(1))

\* C26: a step that restarts the encoder after a failed write leaves the feeder's
\* decoder handle, the decoder processes, the selected track and the feeder's position
\* as they are; and a step that starts, stops or loses a decoder leaves the encoder
\* handle, the encoder processes, the count of encoder launches and the count of
\* failed writes as they are.
C26_IndependentLifecycles ==
    [][ /\ (fails' # fails \/ (pc = "send" /\ launches' # launches)) =>
             UNCHANGED <<audio_decoder_proc, decLive, decTerm, spawns, current_file,
                         music_file, fpc, started>>
        /\ (<<audio_decoder_proc, decLive, decTerm, spawns, current_file>>' #
               <<audio_decoder_proc, decLive, decTerm, spawns, current_file>>) =>
             UNCHANGED <<ffmpeg_proc, encLive, launches, fails>>
      ]_vars

\* the encoder was restarted after a failed write and is on its second process, while
\* the feeder, which started its decoder of the Stone Age track, pumps from it
C26_Witness ==
    /\ pc = "send" /\ fails = MaxFail /\ launches = 2 /\ ffmpeg_proc = 2
    /\ Len(started) = 1 /\ started[1].to = StoneTrack
    /\ audio_decoder_proc = spawns /\ audio_decoder_proc \in decLive
    /\ current_file = StoneTrack /\ fpc = "write"

\* the frames written end with the whole hold of Row i, preceded, unless Row i is the
\* first Row of the run, by the whole cross-dissolve from Row i - 1 into Row i
Delivered(fr, i) ==
    LET n == Len(fr)
        ticks == FrameTotal(HoldDuration(durs, rows[i + 1]))
    IN  /\ n >= 1
        /\ fr[n] = [kind |-> "hold", a |-> SlideImg(i), b |-> SlideImg(i), n |-> ticks]
        /\ i > start_idx =>
              /\ n >= 2
              /\ fr[n - 1] = [kind |-> "xfade", a |-> SlideImg(i - 1), b |-> SlideImg(i),
                              n |-> CrossfadeSteps(CROSSFADE_DURATION)]

\* C27: the step that writes the cursor with value i is taken when the frames written
\* end with the cross-dissolve into Row i (unless Row i is the first Row of the run)
\* and all round(FPS * duration) hold frames of Row i, and it writes no frame; and
\* while the Sequencer is in the body of Row i the cursor written in this run, if any,
\* is below i.
C27_CursorAfterDelivery ==
    /\ [](/\ (cursorLog # <<>> /\ pc \in {"xfade", "hold", "persist", "send"}
                 /\ retpc \notin {"loop", "outro", "cleanup"}) =>
                cursorLog[Len(cursorLog)] < row_i
          /\ \A k \in 1..Len(cursorLog) :
                \E n \in 1..Len(frames) :
                   /\ IsHold(n, SlideImg(cursorLog[k]))
                   /\ frames[n].n = FrameTotal(HoldDuration(durs, rows[cursorLog[k] + 1])))
    /\ [][ cursorLog' # cursorLog =>
             /\ cursorLog' = Append(cursorLog, row_i)
             /\ cursorKind' = "int" /\ cursorVal' = row_i
             /\ Delivered(frames, row_i)
             /\ frames' = frames
          ]_vars

\* the cursor holds 1: Row 1 was delivered, dissolve and hold, with a failed write on
\* the way, and the Sequencer is back at the head of its loop
C27_Witness ==
    /\ pc = "loop" /\ row_i = 2 /\ start_idx = 0 /\ fails > 0
    /\ cursorKind = "int" /\ cursorVal = 1 /\ cursorLog = <<0, 1>>
    /\ Delivered(frames, 1)

====
